---- MODULE Spec2Model ----
(***************************************************************************)
(* Plugin registry and lifecycle engine of the main process                *)
(* (packages/main/src/pluggable/pluginMgr): the store of Plugin objects,   *)
(* its persisted plugins.json, the load pass (usePlugins / loadPlugin),    *)
(* init, the 'plugin' asset protocol handler and asynchronous installs.    *)
(***************************************************************************)
EXTENDS Integers, Sequences, FiniteSets, TLC

VARIABLES
  plugins,            \* store.plugins: the object name -> Plugin, in key order
  fileExists,         \* whether plugins.json exists in the plugins folder
  fileData,           \* parsed content of plugins.json, in key order
  folders,            \* names of the plugin folders on disk
  pluginsPath,        \* globals.pluginsPath
  confirmInstall,     \* store.confirmInstall: which callback is stored
  routerEnabled,      \* router() has been called
  protocolRegistered, \* the 'plugin' file protocol has a handler
  initPc,             \* position of the (synchronous) init call
  initArg,            \* the init call: facade in use, pluginsPath given
  loaded,             \* a usePlugins(path) call has completed
  tasks,              \* install calls in flight, suspended at an await
  ret,                \* outcome of the most recent operation
  served              \* what the protocol handler last passed to callback

vars == <<plugins, fileExists, fileData, folders, pluginsPath, confirmInstall,
          routerEnabled, protocolRegistered, initPc, initArg, loaded, tasks,
          ret, served>>

----------------------------------------------------------------------------
(* Bounds and sample values *)

MaxLen == 4
MaxTasks == 2

Names == {"foo", "bar"}
Origins == {"o1", "o2"}
Tasks == 1..MaxTasks
Segments == {"..", "foo", "a.js"}
Undef == "undefined"
Root == <<"app", "plugins">>

----------------------------------------------------------------------------
(* JavaScript objects as key-ordered sequences of [key, val] *)

ObjKeys(obj) == {obj[i].key : i \in DOMAIN obj}

ObjHas(obj, k) == k \in ObjKeys(obj)

ObjGet(obj, k) == obj[CHOOSE i \in DOMAIN obj : obj[i].key = k].val

\* obj[k] = v: an existing key keeps its position, a new key is appended
ObjSet(obj, k, v) ==
  IF ObjHas(obj, k)
    THEN [i \in DOMAIN obj |-> IF obj[i].key = k THEN [key |-> k, val |-> v] ELSE obj[i]]
    ELSE Append(obj, [key |-> k, val |-> v])

\* delete obj[k]
ObjDelete(obj, k) == SelectSeq(obj, LAMBDA e : e.key # k)

ObjValues(obj) == [i \in DOMAIN obj |-> obj[i].val]

----------------------------------------------------------------------------
(* Plugin objects *)

\* new Plugin(): nothing known yet, not active, no listeners
NewPlugin ==
  [name |-> Undef, origin |-> Undef, _active |-> FALSE, _toUninstall |-> FALSE,
   _listeners |-> {}, dependencies |-> "none"]

\* new Plugin(spec, options)
NewPluginFor(spec) == [NewPlugin EXCEPT !.origin = spec]

\* plugin.subscribe(cb)
subscribe(plugin, cb) == [plugin EXCEPT !._listeners = @ \cup {cb}]

\* a Plugin as a caller of addPlugin may hand it over
PluginValues ==
  [name : Names, origin : Origins, _active : BOOLEAN, _toUninstall : BOOLEAN,
   _listeners : {{}}, dependencies : {"resolved"}]

----------------------------------------------------------------------------
(* store *)

getAllPlugins == ObjValues(plugins)

getActivePlugins == SelectSeq(ObjValues(plugins), LAMBDA p : p._active)

\* persistData without the origin of the plugin
StringifyMutant(plugin) ==
  [k \in DOMAIN plugin \ {"_listeners", "dependencies", "origin"} |-> plugin[k]]

\* one value of persistData: the plugin without _listeners and dependencies;
\* JSON.stringify leaves out the properties whose value is undefined
Stringify(plugin) ==
  LET kept == {k \in DOMAIN plugin :
                 /\ k \notin {"_listeners", "dependencies"}
                 /\ ~(k \in {"name", "origin"} /\ plugin[k] = Undef)}
  IN [k \in kept |-> plugin[k]]

\* a persistData that is kept between calls: the entries of the file whose
\* names have left the register stay in it
PersistDataMutant(reg) ==
  [i \in DOMAIN reg |-> [key |-> reg[i].key, val |-> Stringify(reg[i].val)]]
    \o SelectSeq(fileData, LAMBDA e : ~ObjHas(reg, e.key))

\* what persistPlugins writes for the register reg
PersistData(reg) == [i \in DOMAIN reg |-> [key |-> reg[i].key, val |-> Stringify(reg[i].val)]]

\* an addPlugin that does not subscribe
addPluginRegSilent(reg, plugin) == ObjSet(reg, plugin.name, plugin)

\* a register keyed by the origin of the plugin
addPluginRegMutant(reg, plugin) == ObjSet(reg, plugin.origin, subscribe(plugin, "persistPlugins"))

\* the register after addPlugin(plugin, _)
addPluginReg(reg, plugin) == ObjSet(reg, plugin.name, subscribe(plugin, "persistPlugins"))

\* a removePlugin that leaves the plugin in the register
removePluginRegMutant(reg, name) == reg

\* the register after removePlugin(name, _)
removePluginReg(reg, name) == ObjDelete(reg, name)

\* a removePlugin that reports whether the name was there
removePluginRetMutant(reg, name) == ObjHas(reg, name)

\* the value removePlugin returns: the result of JavaScript's delete, which is
\* true for an own configurable property and for a property that is not there
removePluginRet(reg, name) == TRUE

----------------------------------------------------------------------------
(* load pass *)

\* usePlugins: for (const plugin of getAllPlugins()) removePlugin(plugin.name, false)
RECURSIVE RemoveRegistered(_, _)
RemoveRegistered(reg, ps) ==
  IF ps = <<>> THEN reg
  ELSE RemoveRegistered(removePluginReg(reg, Head(ps).name), Tail(ps))

\* loadPlugin: const plugin = new Plugin(); for (const key in plg) plugin[key] = plg[key]
Populate(plg) ==
  [k \in DOMAIN NewPlugin \cup DOMAIN plg |-> IF k \in DOMAIN plg THEN plg[k] ELSE NewPlugin[k]]

\* loadPlugin(plg) on register reg and folders dirs; rmdirSync throws for the
\* names in failing
loadPlugin(plg, reg, dirs, failing) ==
  IF "_toUninstall" \in DOMAIN plg /\ plg._toUninstall
    THEN IF plg.name \in failing
           THEN [ok |-> FALSE, reg |-> reg, dirs |-> dirs]
           ELSE [ok |-> TRUE, reg |-> reg, dirs |-> dirs \ {plg.name}]
    ELSE [ok |-> TRUE, reg |-> addPluginReg(reg, Populate(plg)), dirs |-> dirs]

\* usePlugins: for (const p in plugins) loadPlugin(plugins[p]), left by the
\* first exception
RECURSIVE LoadEntries(_, _, _, _)
LoadEntries(es, reg, dirs, failing) ==
  IF es = <<>> THEN [ok |-> TRUE, reg |-> reg, dirs |-> dirs]
  ELSE LET r == loadPlugin(Head(es).val, reg, dirs, failing)
       IN IF r.ok THEN LoadEntries(Tail(es), r.reg, r.dirs, failing) ELSE r

\* a load without its persistPlugins()
LoadResultUnsaved(failing) ==
  LET cleared == RemoveRegistered(plugins, getAllPlugins)
  IN IF fileExists
       THEN LET r == LoadEntries(fileData, cleared, folders, failing)
            IN [ok |-> r.ok, reg |-> r.reg, dirs |-> r.dirs, data |-> fileData]
       ELSE [ok |-> TRUE, reg |-> cleared, dirs |-> folders, data |-> fileData]

\* a load that calls persistPlugins() after a failure as well
LoadResultFinally(failing) ==
  LET cleared == RemoveRegistered(plugins, getAllPlugins)
  IN IF fileExists
       THEN LET r == LoadEntries(fileData, cleared, folders, failing)
            IN [ok |-> r.ok, reg |-> r.reg, dirs |-> r.dirs, data |-> PersistData(r.reg)]
       ELSE [ok |-> TRUE, reg |-> cleared, dirs |-> folders, data |-> fileData]

\* usePlugins(pluginsPath) with a path: register, folders, file and outcome
LoadResult(failing) ==
  LET cleared == RemoveRegistered(plugins, getAllPlugins)
  IN IF fileExists
       THEN LET r == LoadEntries(fileData, cleared, folders, failing)
            IN [ok |-> r.ok, reg |-> r.reg, dirs |-> r.dirs,
                data |-> IF r.ok THEN PersistData(r.reg) ELSE fileData]
       ELSE [ok |-> TRUE, reg |-> cleared, dirs |-> folders, data |-> fileData]

----------------------------------------------------------------------------
(* what one call of usePlugins does to the store and the file, in order *)

\* removePlugin(name, persist)
removePluginLog(persist) == <<"delete">> \o (IF persist THEN <<"write">> ELSE <<>>)

\* addPlugin(plugin, persist)
addPluginLog(persist) ==
  <<"store">> \o (IF persist THEN <<"write">> ELSE <<>>) \o <<"subscribe">>

\* a loadPlugin that calls addPlugin(plugin), which saves
loadPluginLogMutant(plg, failing) ==
  IF "_toUninstall" \in DOMAIN plg /\ plg._toUninstall
    THEN IF plg.name \in failing THEN <<"throw">> ELSE <<"rmdir">>
    ELSE <<"populate">> \o addPluginLog(TRUE)

\* loadPlugin(plg): the new Plugin has no listener while it is populated
loadPluginLog(plg, failing) ==
  IF "_toUninstall" \in DOMAIN plg /\ plg._toUninstall
    THEN IF plg.name \in failing THEN <<"throw">> ELSE <<"rmdir">>
    ELSE <<"populate">> \o addPluginLog(FALSE)

RECURSIVE LoadEntriesLog(_, _)
LoadEntriesLog(es, failing) ==
  IF es = <<>> THEN <<>>
  ELSE LET l == loadPluginLog(Head(es).val, failing)
       IN IF l = <<"throw">> THEN l ELSE l \o LoadEntriesLog(Tail(es), failing)

RECURSIVE ClearLog(_)
ClearLog(ps) == IF ps = <<>> THEN <<>> ELSE removePluginLog(FALSE) \o ClearLog(Tail(ps))

\* usePlugins(pluginsPath) with a path
LoadLog(failing) ==
  ClearLog(getAllPlugins)
    \o (IF fileExists
          THEN LET l == LoadEntriesLog(fileData, failing)
               IN IF l # <<>> /\ l[Len(l)] = "throw" THEN l ELSE l \o <<"write">>
          ELSE <<>>)

----------------------------------------------------------------------------
(* asset paths *)

BoundedSeq(S, n) == UNION {[1..k -> S] : k \in 0..n}

\* path.normalize on the segments of a path: '..' removes the segment before
\* it, is dropped at the root of an absolute path and kept at the start of a
\* relative one
RECURSIVE NormalizeSegs(_, _, _)
NormalizeSegs(abs, done, rest) ==
  IF rest = <<>> THEN done
  ELSE IF Head(rest) = ".."
    THEN IF done # <<>> /\ done[Len(done)] # ".."
           THEN NormalizeSegs(abs, SubSeq(done, 1, Len(done) - 1), Tail(rest))
           ELSE IF abs THEN NormalizeSegs(abs, done, Tail(rest))
                ELSE NormalizeSegs(abs, Append(done, ".."), Tail(rest))
    ELSE NormalizeSegs(abs, Append(done, Head(rest)), Tail(rest))

normalize(p) == [abs |-> p.abs, segs |-> NormalizeSegs(p.abs, <<>>, p.segs)]

\* _pluginsPath + entry: an unset path concatenates as the text 'undefined'
PathPlus(entry) ==
  IF pluginsPath = <<>> THEN [abs |-> FALSE, segs |-> <<Undef>> \o entry]
  ELSE [abs |-> TRUE, segs |-> pluginsPath \o entry]

\* the handler given to registerFileProtocol: the path it hands to callback
registerPluginProtocol(entry) == normalize(PathPlus(entry))

IsPrefix(a, b) == Len(a) <= Len(b) /\ SubSeq(b, 1, Len(a)) = a

----------------------------------------------------------------------------
(* initial state: a fresh process on an empty plugins folder *)

IdleTask == [pc |-> "idle", via |-> "none", name |-> "none", origin |-> "none", store |-> TRUE]

NoRet == [op |-> "none", val |-> "none", had |-> FALSE]

Init ==
  /\ plugins = <<>>
  /\ fileExists = FALSE
  /\ fileData = <<>>
  /\ folders = {}
  /\ pluginsPath = <<>>
  /\ confirmInstall = "default"
  /\ routerEnabled = FALSE
  /\ protocolRegistered = FALSE
  /\ initPc = "idle"
  /\ initArg = [use |-> FALSE, path |-> FALSE]
  /\ loaded = FALSE
  /\ tasks = [t \in Tasks |-> IdleTask]
  /\ ret = NoRet
  /\ served = [called |-> FALSE, path |-> [abs |-> FALSE, segs |-> <<>>]]

\* init runs synchronously: nothing else runs while it is between two steps
Ready == initPc \in {"idle", "done"}

\* the lifecycle functions are handed out by usePlugins once a path is known
Usable == Ready /\ pluginsPath # <<>>

----------------------------------------------------------------------------
(* store operations *)

\* addPlugin(plugin, persist)
addPlugin(plugin, persist) ==
  /\ Usable
  /\ plugins' = addPluginReg(plugins, plugin)
  /\ IF persist
       THEN fileExists' = TRUE /\ fileData' = PersistData(plugins')
       ELSE UNCHANGED <<fileExists, fileData>>
  /\ ret' = [op |-> "add", val |-> "ok", had |-> ObjHas(plugins, plugin.name)]
  /\ UNCHANGED <<folders, pluginsPath, confirmInstall, routerEnabled, protocolRegistered,
                 initPc, initArg, loaded, tasks, served>>

\* removePlugin(name, persist)
removePlugin(name, persist) ==
  /\ Usable
  /\ plugins' = removePluginReg(plugins, name)
  /\ IF persist
       THEN fileExists' = TRUE /\ fileData' = PersistData(plugins')
       ELSE UNCHANGED <<fileExists, fileData>>
  /\ ret' = [op |-> "remove",
             val |-> IF removePluginRet(plugins, name) THEN "true" ELSE "false",
             had |-> ObjHas(plugins, name)]
  /\ UNCHANGED <<folders, pluginsPath, confirmInstall, routerEnabled, protocolRegistered,
                 initPc, initArg, loaded, tasks, served>>

\* persistPlugins()
persistPlugins ==
  /\ Usable
  /\ fileExists' = TRUE
  /\ fileData' = PersistData(plugins)
  /\ ret' = [op |-> "persist", val |-> "ok", had |-> FALSE]
  /\ UNCHANGED <<plugins, folders, pluginsPath, confirmInstall, routerEnabled,
                 protocolRegistered, initPc, initArg, loaded, tasks, served>>

----------------------------------------------------------------------------
(* store operations whose writeFileSync throws: the statements before the
   write have run, the ones after it have not, and the caller gets the error *)

\* an addPlugin that returns normally although the write threw
addPluginThrowsMutant(plugin) ==
  /\ Usable
  /\ plugins' = addPluginReg(plugins, plugin)
  /\ ret' = [op |-> "add", val |-> "ok", had |-> ObjHas(plugins, plugin.name)]
  /\ UNCHANGED <<fileExists, fileData, folders, pluginsPath, confirmInstall, routerEnabled,
                 protocolRegistered, initPc, initArg, loaded, tasks, served>>

\* addPlugin(plugin, true): the plugin is stored, the write throws, subscribe
\* is not reached
addPluginThrows(plugin) ==
  /\ Usable
  /\ plugins' = ObjSet(plugins, plugin.name, plugin)
  /\ ret' = [op |-> "add", val |-> "PersistenceFailed", had |-> ObjHas(plugins, plugin.name)]
  /\ UNCHANGED <<fileExists, fileData, folders, pluginsPath, confirmInstall, routerEnabled,
                 protocolRegistered, initPc, initArg, loaded, tasks, served>>

\* removePlugin(name, true): the plugin is deleted, the write throws
removePluginThrows(name) ==
  /\ Usable
  /\ plugins' = removePluginReg(plugins, name)
  /\ ret' = [op |-> "remove", val |-> "PersistenceFailed", had |-> ObjHas(plugins, name)]
  /\ UNCHANGED <<fileExists, fileData, folders, pluginsPath, confirmInstall, routerEnabled,
                 protocolRegistered, initPc, initArg, loaded, tasks, served>>

\* persistPlugins(): the write throws
persistPluginsThrows ==
  /\ Usable
  /\ ret' = [op |-> "persist", val |-> "PersistenceFailed", had |-> FALSE]
  /\ UNCHANGED <<plugins, fileExists, fileData, folders, pluginsPath, confirmInstall,
                 routerEnabled, protocolRegistered, initPc, initArg, loaded, tasks, served>>

----------------------------------------------------------------------------
(* Plugin operations that reach the store through the subscribed listener *)

\* the register after a field of the plugin stored under name is assigned
SetField(reg, name, field, value) ==
  ObjSet(reg, name, [ObjGet(reg, name) EXCEPT ![field] = value])

\* the listeners of the plugin are called: the subscribed persistPlugins saves
EmitUpdate(name) ==
  IF "persistPlugins" \in ObjGet(plugins', name)._listeners
    THEN fileExists' = TRUE /\ fileData' = PersistData(plugins')
    ELSE UNCHANGED <<fileExists, fileData>>

\* activate(name) / deactivate(name)
setActive(name, active) ==
  /\ Usable
  /\ ObjHas(plugins, name)
  /\ IF ObjGet(plugins, name)._active = active
       THEN UNCHANGED <<plugins, fileExists, fileData>>
       ELSE plugins' = SetField(plugins, name, "_active", active) /\ EmitUpdate(name)
  /\ ret' = [op |-> "setActive", val |-> "ok", had |-> FALSE]
  /\ UNCHANGED <<folders, pluginsPath, confirmInstall, routerEnabled, protocolRegistered,
                 initPc, initArg, loaded, tasks, served>>

\* uninstall(name, immediate)
uninstall(name, immediate) ==
  /\ Usable
  /\ ObjHas(plugins, name)
  /\ IF immediate
       THEN /\ plugins' = removePluginReg(plugins, name)
            /\ fileExists' = TRUE
            /\ fileData' = PersistData(plugins')
            /\ folders' = folders \ {name}
       ELSE /\ plugins' = SetField(plugins, name, "_toUninstall", TRUE)
            /\ fileExists' = TRUE
            /\ fileData' = PersistData(plugins')
            /\ UNCHANGED folders
  /\ ret' = [op |-> IF immediate THEN "uninstall" ELSE "mark",
             val |-> "ok", had |-> FALSE]
  /\ UNCHANGED <<pluginsPath, confirmInstall, routerEnabled, protocolRegistered,
                 initPc, initArg, loaded, tasks, served>>

----------------------------------------------------------------------------
(* load *)

\* the effect of usePlugins(pluginsPath) with a path
Load(failing) ==
  LET r == LoadResult(failing)
  IN /\ pluginsPath' = Root
     /\ plugins' = r.reg
     /\ folders' = r.dirs
     /\ fileData' = r.data
     /\ UNCHANGED fileExists
     /\ loaded' = TRUE
     /\ ret' = [op |-> "load", val |-> IF r.ok THEN "ok" ELSE "error",
                had |-> FALSE]

\* usePlugins(pluginsPath) called by the application
usePlugins(failing) ==
  /\ Ready
  /\ Load(failing)
  /\ UNCHANGED <<confirmInstall, routerEnabled, protocolRegistered, initPc, initArg,
                 tasks, served>>

----------------------------------------------------------------------------
(* init(facade, pluginsPath), statement by statement *)

\* if (!facade.hasOwnProperty('use') || facade.use) { setConfirmInstall; router() }
initFacade(use, confirm, path) ==
  /\ initPc = "idle"
  /\ initArg' = [use |-> use, path |-> path]
  /\ IF use
       THEN confirmInstall' = confirm /\ routerEnabled' = TRUE
       ELSE UNCHANGED <<confirmInstall, routerEnabled>>
  /\ initPc' = "protocol"
  /\ UNCHANGED <<plugins, fileExists, fileData, folders, pluginsPath, protocolRegistered,
                 loaded, tasks, ret, served>>

\* an init that goes on without registering the protocol
initProtocolMutant ==
  /\ initPc = "protocol"
  /\ initPc' = IF initArg.path THEN "load" ELSE "done"
  /\ UNCHANGED <<plugins, fileExists, fileData, folders, pluginsPath, confirmInstall,
                 routerEnabled, protocolRegistered, initArg, loaded, tasks, ret, served>>

\* registerPluginProtocol()
initProtocol ==
  /\ initPc = "protocol"
  /\ protocolRegistered' = TRUE
  /\ initPc' = IF initArg.path THEN "load" ELSE "done"
  /\ UNCHANGED <<plugins, fileExists, fileData, folders, pluginsPath, confirmInstall,
                 routerEnabled, initArg, loaded, tasks, ret, served>>

\* if (pluginsPath) return usePlugins(pluginsPath)
initLoad(failing) ==
  /\ initPc = "load"
  /\ Load(failing)
  /\ initPc' = "done"
  /\ UNCHANGED <<confirmInstall, routerEnabled, protocolRegistered, initArg, tasks,
                 served>>

----------------------------------------------------------------------------
(* installs *)

\* plugin._install(): the package is fetched into its folder and the manifest
\* gives the plugin its name and dependencies
Installed(name, origin) ==
  [NewPluginFor(origin) EXCEPT !.name = name, !.dependencies = "resolved"]

\* installPlugin(spec, options, store) up to its await
installPluginCall(t, name, origin, store) ==
  /\ Usable
  /\ tasks[t].pc = "idle"
  /\ tasks' = [tasks EXCEPT ![t] = [pc |-> "fetch", via |-> "api", name |-> name,
                                    origin |-> origin, store |-> store]]
  /\ UNCHANGED <<plugins, fileExists, fileData, folders, pluginsPath, confirmInstall,
                 routerEnabled, protocolRegistered, initPc, initArg, loaded, ret, served>>

\* the router admits one install request per name at a time
RouterAdmits(name) ==
  \A u \in Tasks : ~(tasks[u].via = "router" /\ tasks[u].name = name)

\* an install request arrives at the router, which asks the confirmer
routerInstall(t, name, origin) ==
  /\ Usable
  /\ routerEnabled
  /\ tasks[t].pc = "idle"
  /\ RouterAdmits(name)
  /\ tasks' = [tasks EXCEPT ![t] = [pc |-> "confirm", via |-> "router", name |-> name,
                                    origin |-> origin, store |-> TRUE]]
  /\ UNCHANGED <<plugins, fileExists, fileData, folders, pluginsPath, confirmInstall,
                 routerEnabled, protocolRegistered, initPc, initArg, loaded, ret, served>>

\* the confirmer has answered: the router goes on to installPlugin or gives up
routerConfirm(t) ==
  /\ Ready
  /\ tasks[t].pc = "confirm"
  /\ IF confirmInstall = "yes"
       THEN /\ tasks' = [tasks EXCEPT ![t].pc = "fetch"]
            /\ UNCHANGED ret
       ELSE /\ tasks' = [tasks EXCEPT ![t] = IdleTask]
            /\ ret' = [op |-> "install",
                       val |-> IF confirmInstall = "no" THEN "InstallRejected"
                               ELSE "NotConfigured",
                       had |-> FALSE]
  /\ UNCHANGED <<plugins, fileExists, fileData, folders, pluginsPath, confirmInstall,
                 routerEnabled, protocolRegistered, initPc, initArg, loaded, served>>

\* an installPlugin whose save is of the register before its addition
installPluginDoneStale(t, fetched) ==
  /\ Ready
  /\ tasks[t].pc = "fetch"
  /\ tasks' = [tasks EXCEPT ![t] = IdleTask]
  /\ ret' = [op |-> "install",
             val |-> IF fetched THEN "ok" ELSE "FetchFailed",
             had |-> fetched /\ tasks[t].store /\ ObjHas(plugins, tasks[t].name)]
  /\ IF fetched
       THEN /\ folders' = folders \cup {tasks[t].name}
            /\ IF tasks[t].store
                 THEN /\ plugins' = addPluginReg(plugins, Installed(tasks[t].name, tasks[t].origin))
                      /\ fileExists' = TRUE
                      /\ fileData' = PersistData(plugins)
                 ELSE UNCHANGED <<plugins, fileExists, fileData>>
       ELSE UNCHANGED <<plugins, fileExists, fileData, folders>>
  /\ UNCHANGED <<pluginsPath, confirmInstall, routerEnabled, protocolRegistered, initPc,
                 initArg, loaded, served>>

\* an installPlugin that adds the plugin to the store before the fetch settles
installPluginDoneEager(t, fetched) ==
  /\ Ready
  /\ tasks[t].pc = "fetch"
  /\ tasks' = [tasks EXCEPT ![t] = IdleTask]
  /\ ret' = [op |-> "install",
             val |-> IF fetched THEN "ok" ELSE "FetchFailed",
             had |-> fetched /\ tasks[t].store /\ ObjHas(plugins, tasks[t].name)]
  /\ folders' = IF fetched THEN folders \cup {tasks[t].name} ELSE folders
  /\ IF tasks[t].store
       THEN /\ plugins' = addPluginReg(plugins, Installed(tasks[t].name, tasks[t].origin))
            /\ fileExists' = TRUE
            /\ fileData' = PersistData(plugins')
       ELSE UNCHANGED <<plugins, fileExists, fileData>>
  /\ UNCHANGED <<pluginsPath, confirmInstall, routerEnabled, protocolRegistered, initPc,
                 initArg, loaded, served>>

\* installPlugin after its await: if (store) addPlugin(plugin); return plugin
installPluginDone(t, fetched) ==
  /\ Ready
  /\ tasks[t].pc = "fetch"
  /\ tasks' = [tasks EXCEPT ![t] = IdleTask]
  /\ ret' = [op |-> "install",
             val |-> IF fetched THEN "ok" ELSE "FetchFailed",
             had |-> fetched /\ tasks[t].store /\ ObjHas(plugins, tasks[t].name)]
  /\ IF fetched
       THEN /\ folders' = folders \cup {tasks[t].name}
            /\ IF tasks[t].store
                 THEN /\ plugins' = addPluginReg(plugins, Installed(tasks[t].name, tasks[t].origin))
                      /\ fileExists' = TRUE
                      /\ fileData' = PersistData(plugins')
                 ELSE UNCHANGED <<plugins, fileExists, fileData>>
       ELSE UNCHANGED <<plugins, fileExists, fileData, folders>>
  /\ UNCHANGED <<pluginsPath, confirmInstall, routerEnabled, protocolRegistered, initPc,
                 initArg, loaded, served>>

\* installPlugin after its await with store: the package is fetched, addPlugin
\* stores the plugin and its write throws, so the promise is rejected
installPluginDoneThrows(t) ==
  /\ Ready
  /\ tasks[t].pc = "fetch"
  /\ tasks[t].store
  /\ tasks' = [tasks EXCEPT ![t] = IdleTask]
  /\ folders' = folders \cup {tasks[t].name}
  /\ plugins' = ObjSet(plugins, tasks[t].name, Installed(tasks[t].name, tasks[t].origin))
  /\ ret' = [op |-> "install", val |-> "PersistenceFailed",
             had |-> ObjHas(plugins, tasks[t].name)]
  /\ UNCHANGED <<fileExists, fileData, pluginsPath, confirmInstall, routerEnabled,
                 protocolRegistered, initPc, initArg, loaded, served>>

----------------------------------------------------------------------------
(* asset gateway *)

\* a request for plugin:/<entry> reaches the handler of the 'plugin' protocol
assetRequest(entry) ==
  /\ Ready
  /\ protocolRegistered
  /\ served' = [called |-> TRUE, path |-> registerPluginProtocol(entry)]
  /\ UNCHANGED <<plugins, fileExists, fileData, folders, pluginsPath, confirmInstall,
                 routerEnabled, protocolRegistered, initPc, initArg, loaded, tasks,
                 ret>>

----------------------------------------------------------------------------
(* specifications *)

\* the lifecycle functions the application is handed, and the methods of the
\* plugins it gets from them
Next ==
  \/ \E failing \in SUBSET Names : usePlugins(failing)
  \/ \E name \in Names, active \in BOOLEAN : setActive(name, active)
  \/ \E name \in Names, immediate \in BOOLEAN : uninstall(name, immediate)
  \/ \E name \in Names, origin \in Origins, store \in BOOLEAN :
       installPluginCall(1, name, origin, store)
  \/ \E fetched \in BOOLEAN : installPluginDone(1, fetched)

Spec == Init /\ [][Next]_vars

\* the functions of the store called directly, with the load pass
NextStore ==
  \/ \E failing \in SUBSET Names : usePlugins(failing)
  \/ \E plugin \in PluginValues, persist \in BOOLEAN : addPlugin(plugin, persist)
  \/ \E name \in Names, persist \in BOOLEAN : removePlugin(name, persist)
  \/ persistPlugins
  \/ \E name \in Names, active \in BOOLEAN : setActive(name, active)

SpecStore == Init /\ [][NextStore]_vars

\* installs and direct additions to the store
NextReg ==
  \/ usePlugins({})
  \/ \E plugin \in PluginValues : addPlugin(plugin, TRUE)
  \/ \E name \in Names, origin \in Origins, store \in BOOLEAN :
       installPluginCall(1, name, origin, store)
  \/ \E fetched \in BOOLEAN : installPluginDone(1, fetched)

SpecReg == Init /\ [][NextReg]_vars

\* start-up and install requests, from the router and from the application
NextInit ==
  \/ \E use \in BOOLEAN, confirm \in {"yes", "no", "undefined"}, path \in BOOLEAN :
       initFacade(use, confirm, path)
  \/ initProtocol
  \/ \E failing \in SUBSET Names : initLoad(failing)
  \/ \E failing \in SUBSET Names : usePlugins(failing)
  \/ \E t \in Tasks, name \in Names, store \in BOOLEAN :
       installPluginCall(t, name, "o1", store)
  \/ \E t \in Tasks, name \in Names : routerInstall(t, name, "o1")
  \/ \E t \in Tasks : routerConfirm(t)
  \/ \E t \in Tasks, fetched \in BOOLEAN : installPluginDone(t, fetched)

SpecInit == Init /\ [][NextInit]_vars

\* the asset gateway: start-up and asset requests
NextAsset ==
  \/ \E use \in BOOLEAN, confirm \in {"yes", "no", "undefined"}, path \in BOOLEAN :
       initFacade(use, confirm, path)
  \/ initProtocol
  \/ \E failing \in SUBSET Names : initLoad(failing)
  \/ \E entry \in BoundedSeq(Segments, MaxLen) : assetRequest(entry)

SpecAsset == Init /\ [][NextAsset]_vars

\* installs in flight together, and activations between their steps
NextConc ==
  \/ \E failing \in SUBSET Names : usePlugins(failing)
  \/ \E t \in Tasks, name \in Names, origin \in Origins, store \in BOOLEAN :
       installPluginCall(t, name, origin, store)
  \/ \E t \in Tasks, fetched \in BOOLEAN : installPluginDone(t, fetched)
  \/ \E name \in Names, active \in BOOLEAN : setActive(name, active)

SpecConc == Init /\ [][NextConc]_vars

\* the lifecycle functions over a register that holds plugins the file lacks
NextLoad ==
  \/ \E failing \in SUBSET Names : usePlugins(failing)
  \/ \E name \in Names : addPlugin(Installed(name, "o2"), FALSE)
  \/ \E name \in Names : uninstall(name, FALSE)
  \/ \E name \in Names, active \in BOOLEAN : setActive(name, active)
  \/ \E name \in Names : installPluginCall(1, name, "o1", TRUE)
  \/ \E fetched \in BOOLEAN : installPluginDone(1, fetched)

SpecLoad == Init /\ [][NextLoad]_vars

\* the plugins handed to addPlugin where writes may throw
SavedValues == {p \in PluginValues : p.origin = "o1" /\ ~p._toUninstall}

\* the operations that save, with writes that go through and writes that throw
NextWrite ==
  \/ usePlugins({})
  \/ \E plugin \in SavedValues : addPlugin(plugin, TRUE)
  \/ \E plugin \in SavedValues : addPluginThrows(plugin)
  \/ \E name \in Names : removePlugin(name, TRUE)
  \/ \E name \in Names : removePluginThrows(name)
  \/ persistPlugins
  \/ persistPluginsThrows
  \/ \E name \in Names : installPluginCall(1, name, "o2", TRUE)
  \/ \E fetched \in BOOLEAN : installPluginDone(1, fetched)
  \/ installPluginDoneThrows(1)

SpecWrite == Init /\ [][NextWrite]_vars

TypeOK ==
  /\ initPc \in {"idle", "protocol", "load", "done"}
  /\ folders \subseteq Names
  /\ ObjKeys(plugins) \subseteq Names

----------------------------------------------------------------------------
(* properties *)

LoadStep == \E failing \in SUBSET Names : usePlugins(failing)

ActiveNames(reg) == {reg[i].val.name : i \in {j \in DOMAIN reg : reg[j].val._active}}

Listed(list, name) == {i \in DOMAIN list : list[i].name = name}

\* the file is what persistPlugins writes for the current register
Persisted == fileExists /\ fileData = PersistData(plugins)

\* C1: getActivePlugins never returns a plugin that is not active or that is
\* marked for removal
C1_ActiveFilter ==
  \A i \in DOMAIN getActivePlugins :
    getActivePlugins[i]._active /\ ~getActivePlugins[i]._toUninstall

SameDurable(p, q) ==
  /\ q.name = p.name
  /\ q.origin = p.origin
  /\ q._active = p._active
  /\ q._toUninstall = p._toUninstall

EphemeralReset(q) ==
  /\ q.dependencies = NewPlugin.dependencies
  /\ q._listeners = {"persistPlugins"}

NoEphemeralInFile(data) ==
  \A i \in DOMAIN data : DOMAIN data[i].val \cap {"_listeners", "dependencies"} = {}

RoundTrip(names) ==
  /\ NoEphemeralInFile(fileData)
  /\ ObjKeys(plugins') = names
  /\ \A n \in names :
       /\ SameDurable(ObjGet(plugins, n), ObjGet(plugins', n))
       /\ EphemeralReset(ObjGet(plugins', n))

\* C2 as stated: a load of the file just persisted brings back every plugin of
\* the register with its name, origin, _active and _toUninstall, the
\* ephemeral fields left out of the file and reset
C2_RoundTrip ==
  [][(Persisted /\ LoadStep /\ ret'.val = "ok") => RoundTrip(ObjKeys(plugins))]_vars

\* C2 amended: a load of the file just persisted brings back exactly the
\* plugins not marked for removal, each with its name, origin, _active and
\* _toUninstall, the ephemeral fields left out of the file and reset; the
\* plugins marked for removal are dropped
C2_RoundTripKept ==
  [][(Persisted /\ LoadStep /\ ret'.val = "ok")
       => RoundTrip({n \in ObjKeys(plugins) : ~ObjGet(plugins, n)._toUninstall})]_vars

C2_Witness ==
  /\ ret.op = "load" /\ ret.val = "ok"
  /\ Persisted
  /\ Len(plugins) = 1
  /\ EphemeralReset(plugins[1].val)
  /\ plugins[1].val._active
  /\ plugins[1].val.origin = "o2"

MarkedInFile == {fileData[i].key : i \in {j \in DOMAIN fileData : fileData[j].val._toUninstall}}

\* C3: a plugin marked for removal is at once absent from getActivePlugins
\* while its folder stays; after the next load it is in neither the register
\* nor the file, and its folder is deleted
C3_DeferredRemoval ==
  [][/\ \A name \in Names :
          uninstall(name, FALSE)
            => /\ name \notin ActiveNames(plugins')
               /\ (name \in folders => name \in folders')
     /\ (LoadStep /\ ret'.val = "ok")
          => \A name \in MarkedInFile :
               /\ ~ObjHas(plugins', name)
               /\ ~ObjHas(fileData', name)
               /\ name \notin folders']_vars

\* C4: an install registers a plugin only when a confirmer is configured and
\* it approves
C4_ConfirmerGating ==
  [][\A t \in Tasks :
       (installPluginDone(t, TRUE) /\ tasks[t].store) => confirmInstall = "yes"]_vars

Replaced(plugin) ==
  /\ Cardinality(Listed(getAllPlugins', plugin.name)) = 1
  /\ \A i \in Listed(getAllPlugins', plugin.name) :
       getAllPlugins'[i] = subscribe(plugin, "persistPlugins")

\* C5: getAllPlugins never lists two plugins of one name, and after a plugin
\* is added or installed the one plugin listed under its name is that plugin
C5_Uniqueness ==
  [][/\ \A name \in Names : Cardinality(Listed(getAllPlugins', name)) <= 1
     /\ \A plugin \in PluginValues : addPlugin(plugin, TRUE) => Replaced(plugin)
     /\ (installPluginDone(1, TRUE) /\ tasks[1].store)
          => Replaced(Installed(tasks[1].name, tasks[1].origin))]_vars

C5_Witness ==
  /\ ret.op \in {"add", "install"} /\ ret.val = "ok" /\ ret.had
  /\ Len(plugins) = 2

\* C6: a load that fails leaves the register as it was before the call or
\* empty, never rebuilt in part
C6_LoadAllOrNothing ==
  [][(LoadStep /\ ret'.val = "error") => (plugins' = plugins \/ plugins' = <<>>)]_vars

\* C7: the protocol handler never hands callback a path outside the plugins
\* folder
C7_AssetInsideRoot ==
  (served.called /\ pluginsPath # <<>>) => IsPrefix(pluginsPath, served.path.segs)

RemoveStep(name) == \E persist \in BOOLEAN : removePlugin(name, persist)

Removed(name) ==
  /\ ~ObjHas(plugins', name)
  /\ ObjKeys(plugins') \subseteq ObjKeys(plugins)
  /\ \A k \in ObjKeys(plugins) \ {name} :
       ObjHas(plugins', k) /\ ObjGet(plugins', k) = ObjGet(plugins, k)

\* C8 as stated: removePlugin returns true exactly when the name was in the
\* register, and leaves the register without the name and otherwise as it was
C8_RemoveReturnsExisted ==
  [][\A name \in Names :
       RemoveStep(name) => ((ret'.val = "true") <=> ObjHas(plugins, name)) /\ Removed(name)]_vars

\* C8 amended: removePlugin returns true whether or not the name was in the
\* register, and leaves the register without the name and otherwise as it was
C8_RemoveReturnsTrue ==
  [][\A name \in Names : RemoveStep(name) => ret'.val = "true" /\ Removed(name)]_vars

C8_Witness ==
  /\ ret.op = "remove" /\ ret.val = "true" /\ ~ret.had
  /\ plugins # <<>>

\* C9 as stated: in an init with a plugins path, the router is enabled and the
\* protocol handler registered only once the load has run
C9_LoadBeforeWiring ==
  (initPc # "idle" /\ initArg.path /\ (routerEnabled \/ protocolRegistered))
    => initPc = "done"

\* C9 amended: in an init with a plugins path, the load runs last: the router
\* (for a facade in use) and the protocol handler are in place when it starts,
\* and no install step or asset request runs from the first statement of init
\* to the end of its load
C9_WiringBeforeLoad ==
  [][/\ (\E failing \in SUBSET Names : initLoad(failing))
          => protocolRegistered /\ (initArg.use => routerEnabled) /\ initArg.path
     /\ ~Ready => (tasks' = tasks /\ served' = served)]_vars

C9_Witness ==
  /\ initPc = "done" /\ initArg.path /\ initArg.use
  /\ ret.op = "load"
  /\ routerEnabled /\ protocolRegistered

\* the install of task t is past its confirmation and not yet registered
PastConfirm(t) == tasks[t].pc = "fetch"

\* C10: no two installs of one name are between their confirmation and their
\* registration at once
C10_InstallsSerialized ==
  \A t, u \in Tasks :
    (t # u /\ PastConfirm(t) /\ PastConfirm(u)) => tasks[t].name # tasks[u].name

\* C11: between the steps of concurrent installs and activations the file is
\* the serialization of the current register, written by the most recent
\* persist; while nothing has been persisted the register is empty
C11_FileIsCurrent ==
  /\ fileExists => fileData = PersistData(plugins)
  /\ ~fileExists => plugins = <<>>

C11_Witness ==
  /\ Persisted
  /\ Len(plugins) = 2
  /\ \E t \in Tasks : tasks[t].pc = "fetch" /\ tasks[t].name = plugins[1].key
  /\ plugins[1].val._active
  /\ ret.op = "setActive"

Count(log, e) == Cardinality({i \in DOMAIN log : log[i] = e})

\* C12: in a load that finds a file, clearing the register and processing the
\* entries write nothing; a load that processes every entry writes the file
\* once, as its last step, and a load stopped by an entry has written nothing
C12_OneBatchedWrite ==
  [][\A failing \in SUBSET Names :
       (usePlugins(failing) /\ fileExists) =>
         LET log == LoadLog(failing)
         IN /\ \A i \in 1..(Len(log) - 1) : log[i] # "write"
            /\ ret'.val = "ok" =>
                 /\ Count(log, "write") = 1
                 /\ log[Len(log)] = "write"
                 /\ fileData' = PersistData(plugins')
            /\ ret'.val = "error" => Count(log, "write") = 0]_vars

C12_Witness ==
  /\ ret.op = "load"
  /\ ret.val = "ok"
  /\ Len(plugins) = 2
  /\ folders = ObjKeys(plugins)
  /\ Persisted

FileKept == SelectSeq(fileData, LAMBDA e : ~e.val._toUninstall)

\* C13: after a successful load the register holds exactly the unmarked
\* entries of the file, with their saved fields, whatever it held before; it is
\* empty without a file; a marked entry has no folder and is not registered
C13_LoadedIsFile ==
  [][(LoadStep /\ ret'.val = "ok") =>
       IF fileExists
         THEN /\ ObjKeys(plugins') = ObjKeys(FileKept)
              /\ Len(plugins') = Len(FileKept)
              /\ \A name \in ObjKeys(FileKept) :
                   SameDurable(ObjGet(FileKept, name), ObjGet(plugins', name))
              /\ \A name \in MarkedInFile : name \notin folders' /\ ~ObjHas(plugins', name)
         ELSE plugins' = <<>>]_vars

\* a load has dropped a plugin the file did not have and a marked one
C13_Witness ==
  /\ ret.op = "load"
  /\ ret.val = "ok"
  /\ Len(plugins) = 1
  /\ plugins[1].val.origin = "o1"
  /\ folders = ObjKeys(plugins)

\* C14: an install that fails at its fetch or at its confirmation leaves the
\* register and the file as they were and hands the failure to its caller
C14_FailedInstallRegistersNothing ==
  [][\A t \in Tasks :
       (installPluginDone(t, FALSE) \/ (routerConfirm(t) /\ confirmInstall # "yes")) =>
         /\ plugins' = plugins
         /\ fileData' = fileData
         /\ fileExists' = fileExists
         /\ ret'.op = "install"
         /\ ret'.val \in {"FetchFailed", "InstallRejected", "NotConfigured"}]_vars

C14_Witness ==
  /\ ret.op = "install"
  /\ ret.val = "FetchFailed"
  /\ plugins # <<>>
  /\ Persisted

C16_PersistOverwrites ==
  [][persistPlugins =>
       /\ fileExists'
       /\ Len(fileData') = Len(plugins)
       /\ ObjKeys(fileData') = ObjKeys(plugins)
       /\ \A name \in ObjKeys(plugins) :
            LET plugin == ObjGet(plugins, name)
            IN ObjGet(fileData', name) =
                 [k \in DOMAIN plugin \ {"_listeners", "dependencies"} |-> plugin[k]]]_vars

C16_Witness ==
  /\ ret.op = "persist"
  /\ Len(plugins) = 1
  /\ Len(fileData) = 1
  /\ Persisted

\* a step of addPlugin, removePlugin or installPlugin that saves
SavingStep ==
  \/ \E plugin \in PluginValues : addPlugin(plugin, TRUE) \/ addPluginThrows(plugin)
  \/ \E name \in Names : removePlugin(name, TRUE) \/ removePluginThrows(name)
  \/ \E t \in Tasks : tasks[t].store /\ (installPluginDone(t, TRUE) \/ installPluginDoneThrows(t))

\* C17: a saving addPlugin, removePlugin or installPlugin whose write fails
\* hands PersistenceFailed to its caller; one that returns without it has left
\* the file with the current register
C17_WriteFailurePropagates ==
  [][SavingStep =>
       \/ ret'.val = "PersistenceFailed"
       \/ Persisted']_vars

C17_Witness ==
  /\ ret.op = "add"
  /\ ret.val = "PersistenceFailed"
  /\ fileExists
  /\ ~Persisted

\* C18: a load that follows a successful load changes neither register, file
\* nor folders, and succeeds
C18_LoadIdempotent ==
  [][(ret.op = "load" /\ ret.val = "ok" /\ LoadStep) =>
       /\ plugins' = plugins
       /\ fileData' = fileData
       /\ fileExists' = fileExists
       /\ folders' = folders
       /\ ret'.val = "ok"]_vars

\* a load has deleted the folder of a marked plugin and kept another plugin
C18_Witness ==
  /\ ret.op = "load"
  /\ ret.val = "ok"
  /\ Len(plugins) = 1
  /\ Cardinality(folders) = 1
  /\ Persisted

\* C19: a load that fails at an entry leaves the file as it was
C19_FailedLoadKeepsFile ==
  [][(LoadStep /\ ret'.val = "error") =>
       /\ fileData' = fileData
       /\ fileExists' = fileExists]_vars

C19_Witness ==
  /\ ret.op = "load"
  /\ ret.val = "error"
  /\ Len(fileData) = 2
  /\ MarkedInFile # {}
  /\ Len(plugins) < 2

====
